---- MODULE Spec2Model ----
(***************************************************************************)
(* Model of hw4: a reader thread scans integers from an input file into a  *)
(* shared integer, a writer thread prints each one (once if odd, twice if  *)
(* even) to an output file.  The two threads synchronise through one       *)
(* mutex (syncMutex) and two condition variables (integerReadCondition,    *)
(* integerWroteCondition).  The orchestrator hw4 creates both threads,     *)
(* joins them and destroys the synchronisation objects.                    *)
(***************************************************************************)
EXTENDS Integers, Sequences, FiniteSets, TLC

\* ---------------------------------------------------------------- bounds
MaxLen == 3
MaxVal == 2
MaxSpurious == 2

Values == (0 - MaxVal)..MaxVal

\* A line of the input file: one that "%d\n" matches, or one it does not.
BadLine == [kind |-> "bad", val |-> 0]
Lines == [kind : {"int"}, val : Values] \cup {BadLine}

RECURSIVE SeqsUpTo(_)
SeqsUpTo(n) ==
    IF n = 0 THEN {<<>>}
    ELSE LET shorter == SeqsUpTo(n - 1)
         IN  shorter \cup {Append(s, l) : s \in {t \in shorter : Len(t) = n - 1}, l \in Lines}

Files == SeqsUpTo(MaxLen)

VARIABLES
    input,                  \* contents of the input file, a sequence of lines
    pos,                    \* number of lines the reader's FILE has consumed
    readInteger,            \* hw4's local `int readInteger`, shared by pointer
    finished,               \* hw4's local `bool finished`, shared by pointer
    syncMutex,              \* owner of the mutex: "none", "reader", "writer"
    integerReadCondition,   \* threads blocked in a wait on this condition
    integerWroteCondition,  \* threads blocked in a wait on this condition
    pcM, pcR, pcW,          \* position of hw4, of the reader, of the writer
    wReadInteger,           \* the writer's local `int const readInteger`
    outFile,                \* lines printed to the output file so far
    outOpen,                \* the output FILE is open
    destroyed,              \* synchronisation objects already destroyed
    aborted,                \* the process was aborted by abortWithErrorFmt
    spurious,               \* history: number of spurious wake-ups so far
    finishSignals,          \* history: signals on integerReadCondition sent while finished
    parsed,                 \* history: values the reader parsed, in order
    consumed                \* history: values the writer read, in order

vars == <<input, pos, readInteger, finished, syncMutex, integerReadCondition,
          integerWroteCondition, pcM, pcR, pcW, wReadInteger, outFile, outOpen,
          destroyed, aborted, spurious, finishSignals, parsed, consumed>>

shared == <<readInteger, finished>>
sync == <<syncMutex, integerReadCondition, integerWroteCondition>>
mainVars == <<pcM, outOpen, destroyed>>
history == <<spurious, finishSignals, parsed, consumed>>

\* ------------------------------------------------------- pure functions

\* C's truncating remainder for a positive divisor.
CRem(a, b) == IF a >= 0 THEN a % b ELSE 0 - ((0 - a) % b)

WriteLinesOnce(v) == <<v>>

\* The lines the writer prints for one value.
WriteLines(v) == IF CRem(v, 2) = 0 THEN <<v, v>> ELSE <<v>>

EOF == 0 - 1

\* Match count of vfscanf(file, "%d\n", &i) at file position p.
vfscanf(file, p) ==
    IF p >= Len(file) THEN EOF
    ELSE IF file[p + 1].kind = "int" THEN 1
    ELSE 0

scanFileExactLenient(file, p, expectedMatchCount) ==
    LET matchCount == vfscanf(file, p)
    IN  IF matchCount = expectedMatchCount THEN "true" ELSE "false"

\* "true": matched, "false": end of file, "abort": abortWithErrorFmt.
scanFileExact(file, p, expectedMatchCount) ==
    LET matchCount == vfscanf(file, p)
    IN  IF matchCount = EOF THEN "false"
        ELSE IF matchCount # expectedMatchCount THEN "abort"
        ELSE "true"

\* pthread_cond_signal: unblocks at least one waiter, if there is any.
Signal(cond) == IF cond = {} THEN {} ELSE cond \ {CHOOSE t \in cond : TRUE}

\* ----------------------------------------------------------------- Init

Init ==
    /\ input \in Files
    /\ pos = 0
    /\ readInteger \in Values       \* uninitialised local: any value
    /\ finished = FALSE
    /\ syncMutex = "none"
    /\ integerReadCondition = {}
    /\ integerWroteCondition = {}
    /\ pcM = "createReader"
    /\ pcR = "notStarted"
    /\ pcW = "notStarted"
    /\ wReadInteger = 0
    /\ outFile = <<>>
    /\ outOpen = TRUE
    /\ destroyed = {}
    /\ aborted = FALSE
    /\ spurious = 0
    /\ finishSignals = 0
    /\ parsed = <<>>
    /\ consumed = <<>>

\* ------------------------------------------------------------------ hw4

MainCreateReader ==
    /\ ~aborted /\ pcM = "createReader"
    /\ pcM' = "createWriter"
    /\ pcR' = "fopen"
    /\ UNCHANGED <<input, pos, shared, sync, pcW, wReadInteger, outFile, outOpen,
                   destroyed, aborted, history>>

MainCreateWriter ==
    /\ ~aborted /\ pcM = "createWriter"
    /\ pcM' = "joinReader"
    /\ pcW' = "lock"
    /\ UNCHANGED <<input, pos, shared, sync, pcR, wReadInteger, outFile, outOpen,
                   destroyed, aborted, history>>

MainJoinReader ==
    /\ ~aborted /\ pcM = "joinReader" /\ pcR = "done"
    /\ pcM' = "joinWriter"
    /\ UNCHANGED <<input, pos, shared, sync, pcR, pcW, wReadInteger, outFile,
                   outOpen, destroyed, aborted, history>>

MainJoinWriterNoWait ==
    /\ ~aborted /\ pcM = "joinWriter"
    /\ pcM' = "destroyMutex"
    /\ UNCHANGED <<input, pos, shared, sync, pcR, pcW, wReadInteger, outFile,
                   outOpen, destroyed, aborted, history>>

MainJoinWriter ==
    /\ ~aborted /\ pcM = "joinWriter" /\ pcW = "done"
    /\ pcM' = "destroyMutex"
    /\ UNCHANGED <<input, pos, shared, sync, pcR, pcW, wReadInteger, outFile,
                   outOpen, destroyed, aborted, history>>

MainDestroyMutex ==
    /\ ~aborted /\ pcM = "destroyMutex"
    /\ destroyed' = destroyed \cup {"syncMutex"}
    /\ pcM' = "destroyReadCondition"
    /\ UNCHANGED <<input, pos, shared, sync, pcR, pcW, wReadInteger, outFile,
                   outOpen, aborted, history>>

MainDestroyReadCondition ==
    /\ ~aborted /\ pcM = "destroyReadCondition"
    /\ destroyed' = destroyed \cup {"integerReadCondition"}
    /\ pcM' = "destroyWroteCondition"
    /\ UNCHANGED <<input, pos, shared, sync, pcR, pcW, wReadInteger, outFile,
                   outOpen, aborted, history>>

MainDestroyWroteCondition ==
    /\ ~aborted /\ pcM = "destroyWroteCondition"
    /\ destroyed' = destroyed \cup {"integerWroteCondition"}
    /\ pcM' = "fclose"
    /\ UNCHANGED <<input, pos, shared, sync, pcR, pcW, wReadInteger, outFile,
                   outOpen, aborted, history>>

MainFclose ==
    /\ ~aborted /\ pcM = "fclose"
    /\ outOpen' = FALSE
    /\ pcM' = "returned"
    /\ UNCHANGED <<input, pos, shared, sync, pcR, pcW, wReadInteger, outFile,
                   destroyed, aborted, history>>

\* ------------------------------------------------------- reader thread

ReaderFopen ==
    /\ ~aborted /\ pcR = "fopen"
    /\ pcR' = "lock"
    /\ UNCHANGED <<input, pos, shared, sync, mainVars, pcW, wReadInteger, outFile,
                   aborted, history>>

ReaderLock ==
    /\ ~aborted /\ pcR = "lock"
    /\ syncMutex = "none"
    /\ syncMutex' = "reader"
    /\ pcR' = "scan"
    /\ UNCHANGED <<input, pos, shared, integerReadCondition, integerWroteCondition,
                   mainVars, pcW, wReadInteger, outFile, aborted, history>>

ReaderScanLastIsEof ==
    /\ ~aborted /\ pcR = "scan"
    /\ LET r == scanFileExact(input, pos, 1)
       IN  \/ /\ r = "true"
              /\ readInteger' = input[pos + 1].val
              /\ pos' = pos + 1
              /\ parsed' = Append(parsed, input[pos + 1].val)
              /\ pcR' = IF pos + 1 < Len(input) THEN "signalRead" ELSE "setFinished"
              /\ UNCHANGED aborted
           \/ /\ r = "false"
              /\ pcR' = "setFinished"
              /\ UNCHANGED <<readInteger, pos, parsed, aborted>>
           \/ /\ r = "abort"
              /\ aborted' = TRUE
              /\ UNCHANGED <<readInteger, pos, parsed, pcR>>
    /\ UNCHANGED <<input, finished, sync, mainVars, pcW, wReadInteger, outFile,
                   spurious, finishSignals, consumed>>

\* The loop condition: scanFileExact(inFile, 1, "%d\n", integerOutPtr).
ReaderScan ==
    /\ ~aborted /\ pcR = "scan"
    /\ LET r == scanFileExact(input, pos, 1)
       IN  \/ /\ r = "true"
              /\ readInteger' = input[pos + 1].val
              /\ pos' = pos + 1
              /\ parsed' = Append(parsed, input[pos + 1].val)
              /\ pcR' = "signalRead"
              /\ UNCHANGED aborted
           \/ /\ r = "false"
              /\ pcR' = "setFinished"
              /\ UNCHANGED <<readInteger, pos, parsed, aborted>>
           \/ /\ r = "abort"
              /\ aborted' = TRUE
              /\ UNCHANGED <<readInteger, pos, parsed, pcR>>
    /\ UNCHANGED <<input, finished, sync, mainVars, pcW, wReadInteger, outFile,
                   spurious, finishSignals, consumed>>

ReaderSignalRead ==
    /\ ~aborted /\ pcR = "signalRead"
    /\ integerReadCondition' = Signal(integerReadCondition)
    /\ finishSignals' = IF finished THEN finishSignals + 1 ELSE finishSignals
    /\ pcR' = "waitWrote"
    /\ UNCHANGED <<input, pos, shared, syncMutex, integerWroteCondition, mainVars,
                   pcW, wReadInteger, outFile, aborted, spurious, parsed, consumed>>

ReaderWaitWroteSkip ==
    /\ ~aborted /\ pcR = "waitWrote"
    /\ pcR' = "scan"
    /\ UNCHANGED <<input, pos, shared, sync, mainVars, pcW, wReadInteger, outFile,
                   aborted, history>>

\* safeConditionWait, first half: release the mutex and block.
ReaderWaitWrote ==
    /\ ~aborted /\ pcR = "waitWrote"
    /\ syncMutex' = "none"
    /\ integerWroteCondition' = integerWroteCondition \cup {"reader"}
    /\ pcR' = "blocked"
    /\ UNCHANGED <<input, pos, shared, integerReadCondition, mainVars, pcW,
                   wReadInteger, outFile, aborted, history>>

ReaderWakeNoReacquire ==
    /\ ~aborted /\ pcR = "blocked"
    /\ "reader" \notin integerWroteCondition
    /\ pcR' = "scan"
    /\ UNCHANGED <<input, pos, shared, sync, mainVars, pcW, wReadInteger, outFile,
                   aborted, history>>

\* safeConditionWait, second half: unblocked, reacquire the mutex, return.
ReaderWake ==
    /\ ~aborted /\ pcR = "blocked"
    /\ "reader" \notin integerWroteCondition
    /\ syncMutex = "none"
    /\ syncMutex' = "reader"
    /\ pcR' = "scan"
    /\ UNCHANGED <<input, pos, shared, integerReadCondition, integerWroteCondition,
                   mainVars, pcW, wReadInteger, outFile, aborted, history>>

ReaderSetFinished ==
    /\ ~aborted /\ pcR = "setFinished"
    /\ finished' = TRUE
    /\ pcR' = "signalFinished"
    /\ UNCHANGED <<input, pos, readInteger, sync, mainVars, pcW, wReadInteger,
                   outFile, aborted, history>>

ReaderSignalFinished ==
    /\ ~aborted /\ pcR = "signalFinished"
    /\ integerReadCondition' = Signal(integerReadCondition)
    /\ finishSignals' = IF finished THEN finishSignals + 1 ELSE finishSignals
    /\ pcR' = "unlock"
    /\ UNCHANGED <<input, pos, shared, syncMutex, integerWroteCondition, mainVars,
                   pcW, wReadInteger, outFile, aborted, spurious, parsed, consumed>>

ReaderUnlock ==
    /\ ~aborted /\ pcR = "unlock"
    /\ syncMutex' = "none"
    /\ pcR' = "fclose"
    /\ UNCHANGED <<input, pos, shared, integerReadCondition, integerWroteCondition,
                   mainVars, pcW, wReadInteger, outFile, aborted, history>>

ReaderFclose ==
    /\ ~aborted /\ pcR = "fclose"
    /\ pcR' = "done"
    /\ UNCHANGED <<input, pos, shared, sync, mainVars, pcW, wReadInteger, outFile,
                   aborted, history>>

\* ------------------------------------------------------- writer thread

WriterLock ==
    /\ ~aborted /\ pcW = "lock"
    /\ syncMutex = "none"
    /\ syncMutex' = "writer"
    /\ pcW' = "waitRead"
    /\ UNCHANGED <<input, pos, shared, integerReadCondition, integerWroteCondition,
                   mainVars, pcR, wReadInteger, outFile, aborted, history>>

\* safeConditionWait, first half: release the mutex and block.
WriterWaitRead ==
    /\ ~aborted /\ pcW = "waitRead"
    /\ syncMutex' = "none"
    /\ integerReadCondition' = integerReadCondition \cup {"writer"}
    /\ pcW' = "blocked"
    /\ UNCHANGED <<input, pos, shared, integerWroteCondition, mainVars, pcR,
                   wReadInteger, outFile, aborted, history>>

WriterWakeNoReacquire ==
    /\ ~aborted /\ pcW = "blocked"
    /\ "writer" \notin integerReadCondition
    /\ pcW' = "checkFinished"
    /\ UNCHANGED <<input, pos, shared, sync, mainVars, pcR, wReadInteger, outFile,
                   aborted, history>>

\* safeConditionWait, second half: unblocked, reacquire the mutex, return.
WriterWake ==
    /\ ~aborted /\ pcW = "blocked"
    /\ "writer" \notin integerReadCondition
    /\ syncMutex = "none"
    /\ syncMutex' = "writer"
    /\ pcW' = "checkFinished"
    /\ UNCHANGED <<input, pos, shared, integerReadCondition, integerWroteCondition,
                   mainVars, pcR, wReadInteger, outFile, aborted, history>>

WriterCheckFinishedReset ==
    /\ ~aborted /\ pcW = "checkFinished"
    /\ pcW' = IF finished THEN "unlock" ELSE "readInt"
    /\ finished' = FALSE
    /\ UNCHANGED <<input, pos, readInteger, sync, mainVars, pcR, wReadInteger,
                   outFile, aborted, history>>

WriterCheckFinished ==
    /\ ~aborted /\ pcW = "checkFinished"
    /\ pcW' = IF finished THEN "unlock" ELSE "readInt"
    /\ UNCHANGED <<input, pos, shared, sync, mainVars, pcR, wReadInteger, outFile,
                   aborted, history>>

WriterReadInteger ==
    /\ ~aborted /\ pcW = "readInt"
    /\ wReadInteger' = readInteger
    /\ consumed' = Append(consumed, readInteger)
    /\ pcW' = "print"
    /\ UNCHANGED <<input, pos, shared, sync, mainVars, pcR, outFile, aborted,
                   spurious, finishSignals, parsed>>

WriterPrintAlwaysTwice ==
    /\ ~aborted /\ pcW = "print"
    /\ outFile' = outFile \o <<wReadInteger, wReadInteger>>
    /\ pcW' = "signalWrote"
    /\ UNCHANGED <<input, pos, shared, sync, mainVars, pcR, wReadInteger, aborted,
                   history>>

WriterPrint ==
    /\ ~aborted /\ pcW = "print"
    /\ outFile' = outFile \o WriteLines(wReadInteger)
    /\ pcW' = "signalWrote"
    /\ UNCHANGED <<input, pos, shared, sync, mainVars, pcR, wReadInteger, aborted,
                   history>>

WriterSignalWroteLost ==
    /\ ~aborted /\ pcW = "signalWrote"
    /\ pcW' = "waitRead"
    /\ UNCHANGED <<input, pos, shared, sync, mainVars, pcR, wReadInteger, outFile,
                   aborted, history>>

WriterSignalWrote ==
    /\ ~aborted /\ pcW = "signalWrote"
    /\ integerWroteCondition' = Signal(integerWroteCondition)
    /\ pcW' = "waitRead"
    /\ UNCHANGED <<input, pos, shared, syncMutex, integerReadCondition, mainVars,
                   pcR, wReadInteger, outFile, aborted, history>>

WriterUnlock ==
    /\ ~aborted /\ pcW = "unlock"
    /\ syncMutex' = "none"
    /\ pcW' = "done"
    /\ UNCHANGED <<input, pos, shared, integerReadCondition, integerWroteCondition,
                   mainVars, pcR, wReadInteger, outFile, aborted, history>>

\* ---------------------------------------------- spurious wake-ups (POSIX)

\* pthread_cond_wait may return although no signal was sent.
SpuriousWakeReader ==
    /\ ~aborted /\ pcR = "blocked"
    /\ "reader" \in integerWroteCondition
    /\ spurious < MaxSpurious
    /\ spurious' = spurious + 1
    /\ integerWroteCondition' = integerWroteCondition \ {"reader"}
    /\ UNCHANGED <<input, pos, shared, syncMutex, integerReadCondition, mainVars,
                   pcR, pcW, wReadInteger, outFile, aborted, finishSignals, parsed,
                   consumed>>

SpuriousWakeWriter ==
    /\ ~aborted /\ pcW = "blocked"
    /\ "writer" \in integerReadCondition
    /\ spurious < MaxSpurious
    /\ spurious' = spurious + 1
    /\ integerReadCondition' = integerReadCondition \ {"writer"}
    /\ UNCHANGED <<input, pos, shared, syncMutex, integerWroteCondition, mainVars,
                   pcR, pcW, wReadInteger, outFile, aborted, finishSignals, parsed,
                   consumed>>

\* ------------------------------------------------------- specifications

Main ==
    \/ MainCreateReader \/ MainCreateWriter \/ MainJoinReader \/ MainJoinWriter
    \/ MainDestroyMutex \/ MainDestroyReadCondition \/ MainDestroyWroteCondition
    \/ MainFclose

Reader ==
    \/ ReaderFopen \/ ReaderLock \/ ReaderScan \/ ReaderSignalRead
    \/ ReaderWaitWrote \/ ReaderWake \/ ReaderSetFinished
    \/ ReaderSignalFinished \/ ReaderUnlock \/ ReaderFclose

Writer ==
    \/ WriterLock \/ WriterWaitRead \/ WriterWake \/ WriterCheckFinished
    \/ WriterReadInteger \/ WriterPrint \/ WriterSignalWrote \/ WriterUnlock

Next == Main \/ Reader \/ Writer

\* Condition waits return only on a signal.
Spec == Init /\ [][Next]_vars

NextSpurious == Next \/ SpuriousWakeReader \/ SpuriousWakeWriter

\* Condition waits may also return spuriously, as POSIX permits.
SpecSpurious == Init /\ [][NextSpurious]_vars

\* Signal-only waits, and every thread that can keep running does run: the
\* scheduler starves neither hw4 nor the reader nor the writer.
FairSpec == Spec /\ WF_vars(Main) /\ WF_vars(Reader) /\ WF_vars(Writer)

\* ------------------------------------------------- vocabulary of claims

\* The input has no malformed line.
WellFormed == \A i \in 1..Len(input) : input[i].kind = "int"

\* Number of well-formed lines before the first malformed one.
GoodLen ==
    CHOOSE k \in 0..Len(input) :
        /\ \A i \in 1..k : input[i].kind = "int"
        /\ k = Len(input) \/ input[k + 1].kind = "bad"

\* The integers of the input up to the first malformed line.
GoodValues == [i \in 1..GoodLen |-> input[i].val]

IsEven(v) == \E k \in Values : v = 2 * k

\* The output the documentation of hw4 prescribes for a sequence of integers.
RECURSIVE Transform(_)
Transform(s) ==
    IF s = <<>> THEN <<>>
    ELSE (IF IsEven(Head(s)) THEN <<Head(s), Head(s)>> ELSE <<Head(s)>>)
         \o Transform(Tail(s))

CountEven(s) == Cardinality({i \in 1..Len(s) : IsEven(s[i])})

IsPrefix(s, t) == Len(s) <= Len(t) /\ \A i \in 1..Len(s) : s[i] = t[i]

ReaderBlocked == pcR = "blocked" /\ "reader" \in integerWroteCondition
WriterBlocked == pcW = "blocked" /\ "writer" \in integerReadCondition

\* ----------------------------------------------------------------- claims

\* C1: on a non-empty well-formed input no run ends with the reader blocked
\* on integerWroteCondition and the writer blocked on integerReadCondition
\* (both threads terminate and hw4 returns).
C1_NoMutualBlock ==
    (WellFormed /\ input # <<>>) => ~(ReaderBlocked /\ WriterBlocked)

\* C2: on an empty input the output stays empty and the writer is never left
\* blocked on integerReadCondition after the reader has set finished,
\* signalled and terminated.
C2_EmptyInputTerminates ==
    (input = <<>>) =>
        /\ outFile = <<>>
        /\ ~(pcR = "done" /\ finished /\ WriterBlocked)

\* C3: on a well-formed input, when neither thread (nor hw4) can take another
\* step, the values the writer read are exactly the values the reader parsed,
\* in order.
C3_FinalConsumedEqualsParsed ==
    (WellFormed /\ ~ENABLED Next) => consumed = parsed

C7_NoIOUnderMutex ==
    /\ pcR = "scan" => syncMutex # "reader"
    /\ pcW = "print" => syncMutex # "writer"

\* C7 (amended): a thread scanning the input file or printing to the output
\* file holds syncMutex.
C7_IOUnderMutex ==
    /\ pcR = "scan" => syncMutex = "reader"
    /\ pcW = "print" => syncMutex = "writer"

C7_Witness ==
    /\ pcW = "print"
    /\ syncMutex = "writer"
    /\ Len(parsed) = 2

\* C8: whenever the writer is blocked in its wait on integerReadCondition,
\* no parsed value is unconsumed and finished is false.
C8_NoMissedWakeup ==
    WriterBlocked => (Len(parsed) = Len(consumed) /\ ~finished)

\* C9: also with spurious wake-ups, whenever the writer has returned from its
\* wait either finished is true or a parsed value is not yet consumed, and
\* whenever the reader has returned from its wait the writer has consumed and
\* printed the current value; no value is written twice or overwritten unread.
C9_WakeOnlyWhenAvailable ==
    /\ pcW = "checkFinished" => (finished \/ Len(parsed) = Len(consumed) + 1)
    /\ (pcR = "scan" /\ parsed # <<>>) =>
           (consumed = parsed /\ outFile = Transform(parsed))
    /\ IsPrefix(consumed, parsed)

C11_FinishedMonotonic ==
    [][ /\ (pcM = "createReader") => ~finished
        /\ finished => finished'
        /\ (finished' # finished) =>
               (pcR = "setFinished" /\ syncMutex = "reader" /\ pcR' = "signalFinished")
        /\ finished => (readInteger' = readInteger /\ parsed' = parsed /\ pos' = pos)
        /\ finished' =>
               /\ pcR' \in {"signalFinished", "unlock", "fclose", "done"}
               /\ finishSignals' = IF pcR' = "signalFinished" THEN 0 ELSE 1
      ]_vars

C11_Witness ==
    /\ finished
    /\ pcR = "done"
    /\ finishSignals = 1
    /\ Len(parsed) = 2

\* C12: every access to the shared integer and to finished by a thread is
\* made while that thread owns syncMutex: the reader at its scan into the
\* shared integer and at its store finished = true, the writer at its read
\* of finished and at its read of the shared integer.
C12_SharedAccessUnderMutex ==
    /\ pcR \in {"scan", "setFinished"} => syncMutex = "reader"
    /\ pcW \in {"checkFinished", "readInt"} => syncMutex = "writer"

C12_Witness ==
    /\ pcW = "readInt"
    /\ syncMutex = "writer"
    /\ pcR = "blocked"
    /\ Len(parsed) = 2

\* C13: hw4 destroys syncMutex and the two conditions and closes the output
\* file only after both threads have terminated and been joined; from the
\* first destruction on the mutex is unlocked, no thread waits on either
\* condition, and the output file is not written any more.
C13_DestroyAfterJoin ==
    [][ (destroyed' # {} \/ ~outOpen') =>
            /\ pcR' = "done" /\ pcW' = "done"
            /\ pcM' \in {"destroyReadCondition", "destroyWroteCondition",
                         "fclose", "returned"}
            /\ syncMutex' = "none"
            /\ integerReadCondition' = {} /\ integerWroteCondition' = {}
            /\ outFile' = outFile
            /\ (~outOpen') =>
                   destroyed' = {"syncMutex", "integerReadCondition",
                                 "integerWroteCondition"}
      ]_vars

C13_Witness ==
    /\ pcM = "returned"
    /\ ~outOpen
    /\ destroyed = {"syncMutex", "integerReadCondition", "integerWroteCondition"}
    /\ Len(outFile) >= 3

\* C15: with condition waits returning only on a signal, in every reachable
\* state, also of runs that never terminate, the output written so far is a
\* prefix of the transform of the input's integers: the values parsed so far
\* are a prefix of the input and the output is a prefix of their transform.
C15_OutputIsPrefixOfTransform ==
    /\ IsPrefix(parsed, GoodValues)
    /\ IsPrefix(outFile, Transform(parsed))
    /\ IsPrefix(outFile, Transform(GoodValues))

C15_Witness ==
    /\ pcW = "signalWrote"
    /\ Len(parsed) = 2
    /\ Len(outFile) >= 3
    /\ Len(outFile) < Len(Transform(GoodValues))

\* The writer has locked syncMutex and is blocked in its first wait on
\* integerReadCondition while the reader has not yet locked syncMutex.
WriterWaitsFirst ==
    /\ WriterBlocked
    /\ pcR \in {"fopen", "lock"}
    /\ syncMutex = "none"

\* C14: if the writer enters its first wait before the reader locks
\* syncMutex (waits returning only on a signal, fair scheduling), then on
\* every well-formed input, the empty one included, both threads terminate,
\* hw4 returns and the output is the transform of the whole input.
C14_WriterFirstTerminates ==
    (WriterWaitsFirst /\ WellFormed) ~>
        (/\ pcM = "returned"
         /\ pcR = "done" /\ pcW = "done"
         /\ outFile = Transform(GoodValues))

C14_Witness ==
    /\ pcM = "returned"
    /\ pcR = "done" /\ pcW = "done"
    /\ WellFormed
    /\ Len(input) = 3
    /\ outFile = Transform(GoodValues)
    /\ Len(outFile) >= 4

====
